---------------------------- MODULE Spec2Model ----------------------------
(***************************************************************************)
(* Model of the Sherpa Scout scouting endpoint (src/main.py).              *)
(*                                                                         *)
(* The service is stateless: every request is answered by a chain of pure  *)
(* helpers.  The state of the model is the call in progress (which         *)
(* function, with which arguments) and what it returned or raised.         *)
(*                                                                         *)
(* Numbers.  Python's float is modelled bit for bit as IEEE 754 binary64   *)
(* (the section below), int as an integer.  round(x, 2) and int(x) are     *)
(* modelled by what they do to a float.                                    *)
(*                                                                         *)
(* Optional values.  None is the empty tuple, a present value x is <<x>>.  *)
(***************************************************************************)
EXTENDS Integers, Sequences, FiniteSets

VARIABLES fn, args, ret, sum_impl

vars == <<fn, args, ret, sum_impl>>

None == <<>>
Some(x) == <<x>>

---------------------------------------------------------------------------
(* Python's float: IEEE 754 binary64, round to nearest, ties to even.      *)
(*                                                                         *)
(* A float is [s, m, e] with the value s * M * 2^e, where s is 1 or -1 and *)
(* M is the 53-bit significand held in four limbs of 14 bits, lowest       *)
(* first: M = m[1] + m[2]*2^14 + m[3]*2^28 + m[4]*2^42, 2^52 <= M < 2^53.  *)
(* Zero is the one float with M = 0.  Every operation computes the exact   *)
(* result as a sequence of limbs and rounds it once.  Infinities, NaN,     *)
(* subnormals and the sign of zero do not occur on the values of the model *)
(* and are left out.                                                       *)
(*                                                                         *)
(* The({e : x \in {a}}) is e with x standing for the value of a: it makes  *)
(* an operand be computed once, as in the program.                         *)

The(S) == CHOOSE v \in S : TRUE

Pow2 == [k \in 0..14 |-> 2^k]

Zero == [s |-> 1, m |-> <<0, 0, 0, 0>>, e |-> -2000]

IsZero(x) == x.m[4] = 0

\* Limb j of the limb sequence P, 0 beyond its ends
Limb(P, j) == IF j >= 1 /\ j <= Len(P) THEN P[j] ELSE 0

\* The limbs of the column sums S[i..] (any integers, total >= 0) with the
\* carry c from below
RECURSIVE CarryFrom(_, _, _)
CarryFrom(S, i, c) ==
    IF i > Len(S)
    THEN IF c = 0 THEN <<>> ELSE <<c % 16384>> \o CarryFrom(S, i, c \div 16384)
    ELSE The({ <<t % 16384>> \o CarryFrom(S, i + 1, t \div 16384) : t \in {S[i] + c} })

Carry(S) == The({ CarryFrom(P, 1, 0) : P \in {S} })

\* Index of the highest non-zero limb at or below i, 0 if there is none
RECURSIVE Top(_, _)
Top(P, i) == IF i = 0 THEN 0 ELSE IF P[i] # 0 THEN i ELSE Top(P, i - 1)

\* Number of bits of a limb v, 1 <= v < 2^14
BitLen(v) ==
    IF v >= 128
    THEN IF v >= 2048
         THEN IF v >= 8192 THEN 14 ELSE IF v >= 4096 THEN 13 ELSE 12
         ELSE IF v >= 512 THEN (IF v >= 1024 THEN 11 ELSE 10)
              ELSE IF v >= 256 THEN 9 ELSE 8
    ELSE IF v >= 8
         THEN IF v >= 32 THEN (IF v >= 64 THEN 7 ELSE 6)
              ELSE IF v >= 16 THEN 5 ELSE 4
         ELSE IF v >= 4 THEN 3 ELSE IF v >= 2 THEN 2 ELSE 1

\* Limbs 1..n of floor(P / 2^drop) for drop > 0, whether P / 2^drop (plus a
\* sticky rest below P) is inexact, and whether its round-half-even goes up
ShiftRight(P, drop, n, sticky) ==
    The({ [q |-> q,
           up |-> half /\ (rest \/ q[1] % 2 = 1),
           inexact |-> half \/ rest] :
          q \in {[i \in 1..n |->
                    (Limb(P, i + (drop \div 14)) \div Pow2[drop % 14])
                        + (Limb(P, i + (drop \div 14) + 1) % Pow2[drop % 14])
                            * Pow2[14 - (drop % 14)]]},
          half \in {(Limb(P, ((drop - 1) \div 14) + 1) \div Pow2[(drop - 1) % 14]) % 2 = 1},
          rest \in {\/ sticky
                    \/ Limb(P, ((drop - 1) \div 14) + 1) % Pow2[(drop - 1) % 14] # 0
                    \/ \E j \in 1..((drop - 1) \div 14) : Limb(P, j) # 0} })

\* Limbs 1..4 of P * 2^k
ShiftLeft(P, k) ==
    [i \in 1..4 |->
        ((Limb(P, i - (k \div 14)) * Pow2[k % 14]) % 16384)
            + ((Limb(P, i - (k \div 14) - 1) * Pow2[k % 14]) \div 16384)]

\* The float with sign s, exponent e and the significand q[1..4], one more
\* if up
Rounded(s, r, e) ==
    IF ~r.up
    THEN [s |-> s, m |-> r.q, e |-> e]
    ELSE IF r.q = <<16383, 16383, 16383, 2047>>
    THEN [s |-> s, m |-> <<0, 0, 0, 1024>>, e |-> e + 1]
    ELSE [s |-> s, m |-> CarryFrom(<<r.q[1] + 1, r.q[2], r.q[3], r.q[4]>>, 1, 0), e |-> e]

\* The float nearest to s * P * 2^e, where P has drop + 53 bits
RoundTo(s, P, e, sticky, drop) ==
    IF drop <= 0
    THEN [s |-> s, m |-> ShiftLeft(P, -drop), e |-> e + drop]
    ELSE The({ Rounded(s, r, e + drop) : r \in {ShiftRight(P, drop, 4, sticky)} })

\* The float nearest to sign * limbs * 2^e (plus a sticky rest below limbs)
Normalize(sign, limbs, e, sticky) ==
    The({ IF top = 0
          THEN Zero
          ELSE RoundTo(sign, P, e, sticky, 14 * (top - 1) + BitLen(P[top]) - 53) :
          P \in {limbs}, top \in {Top(limbs, Len(limbs))} })

\* float(i) for an integer i, |i| < 2^31
FromInt(i) ==
    The({ Normalize(IF i < 0 THEN -1 ELSE 1,
                    <<a % 16384, (a \div 16384) % 16384, a \div 268435456>>, 0, FALSE) :
          a \in {IF i < 0 THEN -i ELSE i} })

FNeg(x) == The({ IF IsZero(v) THEN v ELSE [v EXCEPT !.s = -v.s] : v \in {x} })

\* |x| < |y|
MagLt(x, y) ==
    \/ x.e < y.e
    \/ /\ x.e = y.e
       /\ \/ x.m[4] < y.m[4]
          \/ x.m[4] = y.m[4] /\ x.m[3] < y.m[3]
          \/ x.m[4] = y.m[4] /\ x.m[3] = y.m[3] /\ x.m[2] < y.m[2]
          \/ x.m[4] = y.m[4] /\ x.m[3] = y.m[3] /\ x.m[2] = y.m[2] /\ x.m[1] < y.m[1]

\* a < b
FLt(a, b) ==
    The({ IF x.s # y.s
          THEN x.s < y.s
          ELSE IF x.s = 1 THEN MagLt(x, y) ELSE MagLt(y, x) :
          x \in {a}, y \in {b} })

FGt(a, b) == FLt(b, a)
FGe(a, b) == ~FLt(a, b)
FLe(a, b) == ~FLt(b, a)

\* a * b
FMul(a, b) ==
    The({ IF IsZero(x) \/ IsZero(y)
          THEN Zero
          ELSE Normalize(x.s * y.s,
                         Carry(<< x.m[1] * y.m[1],
                                  x.m[1] * y.m[2] + x.m[2] * y.m[1],
                                  x.m[1] * y.m[3] + x.m[2] * y.m[2] + x.m[3] * y.m[1],
                                  x.m[1] * y.m[4] + x.m[2] * y.m[3] + x.m[3] * y.m[2]
                                      + x.m[4] * y.m[1],
                                  x.m[2] * y.m[4] + x.m[3] * y.m[3] + x.m[4] * y.m[2],
                                  x.m[3] * y.m[4] + x.m[4] * y.m[3],
                                  x.m[4] * y.m[4] >>),
                         x.e + y.e, FALSE) :
          x \in {a}, y \in {b} })

\* hi + lo for non-zero floats with hi.e >= lo.e: the limbs of hi are moved
\* up to the exponent of lo and the limbs of lo added or taken away
AddAligned(hi, lo) ==
    IF hi.e - lo.e > 60
    THEN hi
    ELSE The({ Normalize(IF neg THEN lo.s ELSE hi.s,
                         Carry([i \in 1..9 |->
                                  IF hi.s = lo.s THEN A[i] + Limb(lo.m, i)
                                  ELSE IF neg THEN Limb(lo.m, i) - A[i]
                                  ELSE A[i] - Limb(lo.m, i)]),
                         lo.e, FALSE) :
               A \in {[i \in 1..9 |->
                         Limb(hi.m, i - ((hi.e - lo.e) \div 14)) * Pow2[(hi.e - lo.e) % 14]]},
               neg \in {hi.s # lo.s /\ hi.e = lo.e /\ MagLt(hi, lo)} })

\* a + b
FAdd(a, b) ==
    The({ IF IsZero(x) THEN y
          ELSE IF IsZero(y) THEN x
          ELSE IF x.e >= y.e THEN AddAligned(x, y) ELSE AddAligned(y, x) :
          x \in {a}, y \in {b} })

FSub(a, b) == FAdd(a, FNeg(b))

\* Long division of the limbs D[1..i] by d with the remainder r carried in
\* from above and the quotient limbs q found so far: the quotient limbs
\* (lowest first) and the last remainder
RECURSIVE DivLimbs(_, _, _, _, _)
DivLimbs(D, i, d, r, q) ==
    IF i = 0
    THEN [q |-> q, r |-> r]
    ELSE The({ DivLimbs(D, i - 1, d, cur % d, hd) :
               cur \in {r * 16384 + D[i]}, hd \in {<<(r * 16384 + D[i]) \div d>> \o q} })

\* a / d for an integer d, 0 < |d| < 2^16
FDivInt(a, d) ==
    The({ IF IsZero(x)
          THEN Zero
          ELSE The({ Normalize(IF d < 0 THEN -x.s ELSE x.s, r.q, x.e - 28, r.r # 0) :
                     r \in {DivLimbs(<<0, 0>> \o x.m, 6, IF d < 0 THEN -d ELSE d, 0, <<>>)} }) :
          x \in {a} })

\* The float a decimal literal p/q stands for
Dec(p, q) == FDivInt(FromInt(p), q)

\* The integer value of three limbs
LimbsInt(q) == q[1] + q[2] * 16384 + q[3] * 268435456

\* int(a): the fractional part is discarded (|a| < 2^30)
FTrunc(a) ==
    The({ IF IsZero(x) \/ x.e <= -53
          THEN 0
          ELSE x.s * LimbsInt(ShiftRight(x.m, -x.e, 3, FALSE).q) :
          x \in {a} })

\* math.floor(a) (|a| < 2^30)
FFloor(a) ==
    The({ IF IsZero(x)
          THEN 0
          ELSE IF x.e <= -53
          THEN IF x.s < 0 THEN -1 ELSE 0
          ELSE The({ IF x.s < 0 /\ r.inexact THEN -LimbsInt(r.q) - 1
                     ELSE x.s * LimbsInt(r.q) :
                     r \in {ShiftRight(x.m, -x.e, 3, FALSE)} }) :
          x \in {a} })

\* round(a, 2): the float nearest to the decimal with two places nearest to
\* the exact value of a, ties to the even one (|a| < 2^20)
FRound2(a) ==
    The({ IF IsZero(x) \/ x.e <= -62
          THEN Zero
          ELSE The({ Dec(x.s * (LimbsInt(r.q) + IF r.up THEN 1 ELSE 0), 100) :
                     r \in {ShiftRight(Carry([i \in 1..4 |-> x.m[i] * 25]),
                                       -(x.e + 2), 3, FALSE)} }) :
          x \in {a} })

\* Python's max(a, b) and min(a, b): the first unless the second is beyond it
FMax(a, b) == The({ IF FGt(y, x) THEN y ELSE x : x \in {a}, y \in {b} })
FMin(a, b) == The({ IF FLt(y, x) THEN y ELSE x : x \in {a}, y \in {b} })

---------------------------------------------------------------------------
(* The numeric literals of src/main.py.                                    *)

F0 == FromInt(0)
F1 == FromInt(1)
F30 == FromInt(30)
F50 == FromInt(50)
F55 == FromInt(55)
F70 == FromInt(70)
F85 == FromInt(85)
F100 == FromInt(100)
F200000 == FromInt(200000)
F0_2 == Dec(2, 10)
F0_4 == Dec(4, 10)
F0_5 == Dec(5, 10)
F0_6 == Dec(6, 10)
F0_8 == Dec(8, 10)
F1_1 == Dec(11, 10)
F0_12 == Dec(12, 100)
F0_45 == Dec(45, 100)
F0_75 == Dec(75, 100)
F0_95 == Dec(95, 100)

---------------------------------------------------------------------------
(* str.lower() on ASCII letters; a string that is looked into is the       *)
(* sequence of its characters.                                             *)

LowerOf ==
    [c \in {"A", "B", "C", "D", "E", "F", "G", "H", "I", "J", "K", "L", "M",
            "N", "O", "P", "Q", "R", "S", "T", "U", "V", "W", "X", "Y", "Z"} |->
        CASE c = "A" -> "a" [] c = "B" -> "b" [] c = "C" -> "c" [] c = "D" -> "d"
          [] c = "E" -> "e" [] c = "F" -> "f" [] c = "G" -> "g" [] c = "H" -> "h"
          [] c = "I" -> "i" [] c = "J" -> "j" [] c = "K" -> "k" [] c = "L" -> "l"
          [] c = "M" -> "m" [] c = "N" -> "n" [] c = "O" -> "o" [] c = "P" -> "p"
          [] c = "Q" -> "q" [] c = "R" -> "r" [] c = "S" -> "s" [] c = "T" -> "t"
          [] c = "U" -> "u" [] c = "V" -> "v" [] c = "W" -> "w" [] c = "X" -> "x"
          [] c = "Y" -> "y" [] c = "Z" -> "z"]

lower(str) ==
    [i \in 1..Len(str) |-> IF str[i] \in DOMAIN LowerOf THEN LowerOf[str[i]] ELSE str[i]]

\* The tuple ("guard","forward","center","midfielder","forward")
ReferencePositions ==
    { <<"g", "u", "a", "r", "d">>,
      <<"f", "o", "r", "w", "a", "r", "d">>,
      <<"c", "e", "n", "t", "e", "r">>,
      <<"m", "i", "d", "f", "i", "e", "l", "d", "e", "r">> }

---------------------------------------------------------------------------
(* The helpers.  A call that can raise yields Return(v) or Raise(e).       *)

Return(v) == [raised |-> FALSE, value |-> v]
Raise(e) == [raised |-> TRUE, value |-> e]

\* The builtin sum() up to CPython 3.11: the running total starts at the
\* int 0 and takes the values from the left
RECURSIVE plain_sum(_, _, _)
plain_sum(vals, i, total) ==
    IF i > Len(vals) THEN total ELSE plain_sum(vals, i + 1, FAdd(total, vals[i]))

\* The builtin sum() from CPython 3.12 on: the rounding error c of every
\* addition is kept beside the running total and added at the end
RECURSIVE compensated_sum(_, _, _, _)
compensated_sum(vals, i, total, c) ==
    IF i > Len(vals)
    THEN IF IsZero(c) THEN total ELSE FAdd(total, c)
    ELSE The({ compensated_sum(vals, i + 1, t,
                   FAdd(c, IF ~MagLt(total, x)
                           THEN FAdd(FSub(total, t), x)
                           ELSE FAdd(FSub(x, t), total))) :
               x \in {vals[i]}, t \in {FAdd(total, vals[i])} })

sum(vals) ==
    IF sum_impl = "plain"
    THEN plain_sum(vals, 1, F0)
    ELSE compensated_sum(vals, 2, vals[1], F0)

clamp_none(mean) == mean

\* max(0.0, min(100.0, mean))
clamp(mean) == FMax(F0, FMin(F100, mean))

compute_overall_score(stats) ==
    IF stats = <<>>
    THEN F50
    ELSE The({ clamp(FDivInt(sum(vals), Len(vals))) :
               vals \in {[i \in 1..Len(stats) |-> stats[i].value]} })

team_fit_position(overall, age_factor, position_factor, market) ==
    FMul(FAdd(FAdd(FMul(FDivInt(overall, 100), F0_6), FMul(age_factor, F0_2)),
              FMul(market, F0_2)),
         position_factor)

\* (overall/100)*0.6 + age_factor*0.2 + market*0.2
team_fit(overall, age_factor, position_factor, market) ==
    FAdd(FAdd(FMul(FDivInt(overall, 100), F0_6), FMul(age_factor, F0_2)),
         FMul(market, F0_2))

agency_fit_swapped(overall, market) ==
    FAdd(FMul(market, F0_4), FMul(FDivInt(overall, 100), F0_6))

\* market*0.6 + (overall/100)*0.4
agency_fit(overall, market) ==
    FAdd(FMul(market, F0_6), FMul(FDivInt(overall, 100), F0_4))

compute_fit_scores(player) ==
    The({ IF market = None
          THEN Raise("TypeError")
          ELSE The({ Return([overall_score |-> FRound2(overall),
                             team_fit |-> FRound2(FMul(team, F100)),
                             agency_fit |-> FRound2(FMul(agency, F100)),
                             opportunity_score |->
                                 FRound2(FMul(FDivInt(FAdd(team, agency), 2), F100))]) :
                     team \in {team_fit(overall, age_factor, position_factor, market[1])},
                     agency \in {agency_fit(overall, market[1])} }) :
          overall \in {compute_overall_score(player.stats)},
          age_factor \in
              {FDivInt(FromInt(IF 30 - player.age > 0 THEN 30 - player.age ELSE 0), 30)},
          position_factor \in
              {IF lower(player.position) \in ReferencePositions THEN F1 ELSE F0_8},
          market \in {player.marketability_score} })

in_top_bucket_gt(overall_score) == FGt(overall_score, F85)

\* overall_score >= 85
in_top_bucket(overall_score) == FGe(overall_score, F85)

second_round_pick_30(overall_score) == FTrunc(FAdd(F30, FSub(F70, overall_score)))

\* int(50 + (70 - overall_score))
second_round_pick(overall_score) == FTrunc(FAdd(F50, FSub(F70, overall_score)))

draft_projection(player, overall_score) ==
    LET IntMax(a, b) == IF b > a THEN b ELSE a
        out(round_, pick_est, prob) ==
            [projected_round |-> round_,
             projected_pick_estimate |-> pick_est,
             draft_probability |-> FRound2(prob)]
    IN  IF in_top_bucket(overall_score)
        THEN out(1, Some(IntMax(1, FTrunc(FSub(F30, FSub(overall_score, F85))))), F0_95)
        ELSE IF FGe(overall_score, F70)
        THEN out(1, Some(FTrunc(FAdd(F30, FSub(F85, overall_score)))), F0_75)
        ELSE IF FGe(overall_score, F55)
        THEN out(2, Some(second_round_pick(overall_score)), F0_45)
        ELSE out(3, None, F0_12)

projection_12m_truncated(base, brand_multiplier) ==
    FMul(FMul(FromInt(FTrunc(base)), brand_multiplier), F1_1)

\* base * brand_multiplier * 1.1
projection_12m(base, brand_multiplier) == FMul(FMul(base, brand_multiplier), F1_1)

brand_suggestions_ge(market) ==
    IF FGe(market, F0_8)
    THEN <<"National brand endorsements; social-first campaigns">>
    ELSE IF FGt(market, F0_5)
    THEN <<"Regional brands, niche sponsors">>
    ELSE <<"Local sponsorships, community partnerships">>

\* The list suggestions after the if / elif / else
brand_suggestions(market) ==
    IF FGt(market, F0_8)
    THEN <<"National brand endorsements; social-first campaigns">>
    ELSE IF FGt(market, F0_5)
    THEN <<"Regional brands, niche sponsors">>
    ELSE <<"Local sponsorships, community partnerships">>

nil_value_estimate(player, overall_score) ==
    The({ IF market = None
          THEN Raise("TypeError")
          ELSE Return([current_estimated_nil |-> FTrunc(base),
                       projected_12m_nil |->
                           FTrunc(projection_12m(base, FAdd(F1, market[1]))),
                       brand_suggestions |-> brand_suggestions(market[1])]) :
          base \in {FMul(FDivInt(overall_score, 100), F200000)},
          market \in {player.marketability_score} })

\* sep.join(strs), as the sequence of its pieces
RECURSIVE join(_, _)
join(sep, strs) ==
    IF Len(strs) <= 1 THEN strs ELSE <<strs[1], sep>> \o join(sep, Tail(strs))

\* The pitch as the sequence of its lines, a line as the sequence of its
\* literal pieces and of the values substituted between them
build_pitch(player, fit) ==
    LET highlights == player.highlights
        strengths ==
            IF highlights # None /\ highlights[1] # <<>>
            THEN join("; ", highlights[1])
            ELSE <<"N/A">>
    IN  << <<"Pitch for ", player.full_name, " (", player.position, ", age ",
             player.age, ")">>,
           <<"Overall Score: ", fit.overall_score>>,
           <<"Team Fit: ", fit.team_fit, " | Agency Fit: ", fit.agency_fit>>,
           <<"Opportunity: ", fit.opportunity_score>>,
           <<>>,
           <<"Why sign:">>,
           <<"- Plays ", player.position, " with consistent metrics.">>,
           <<"- Marketability: ", player.marketability_score>>,
           <<"- Key strengths: ">> \o strengths,
           <<>>,
           <<"Recommended next steps:">>,
           <<"1. Shortlist for targeted tryout.">>,
           <<"2. Produce highlight reel and social push.">>,
           <<"3. Introduce to 2-3 regional brands for initial NIL deals.">> >>

\* The handler after fit = compute_fit_scores(player) has returned
report_of(player, fit) ==
    The({ IF nil_est.raised
          THEN nil_est
          ELSE Return([player |-> player,
                       fit_scores |-> fit,
                       draft_projection |-> draft,
                       nil_estimate |-> nil_est.value,
                       report |-> build_pitch(player, fit)]) :
          draft \in {draft_projection(player, fit.overall_score)},
          nil_est \in {nil_value_estimate(player, fit.overall_score)} })

generate_report(player) ==
    The({ IF fit.raised THEN fit ELSE report_of(p, fit.value) :
          p \in {player}, fit \in {compute_fit_scores(player)} })

health == Return([status |-> "ok"])

---------------------------------------------------------------------------
(* The boundary: a request body is a record that may lack the optional     *)
(* keys; the Player model fills the defaults and checks the constraints of *)
(* the fields before the handler runs.  The numbers of a body are the      *)
(* floats its JSON literals stand for.                                     *)

Merge(f, g) ==
    [k \in DOMAIN f \cup DOMAIN g |-> IF k \in DOMAIN g THEN g[k] ELSE f[k]]

Player(body) ==
    LET stats == IF "stats" \in DOMAIN body THEN body.stats ELSE <<>>
        market ==
            IF "marketability_score" \in DOMAIN body
            THEN body.marketability_score
            ELSE Some(F0_5)
        highlights ==
            IF "highlights" \in DOMAIN body THEN body.highlights ELSE Some(<<>>)
    IN  IF market # None /\ (FLt(market[1], F0) \/ FGt(market[1], F1))
        THEN Raise("ValidationError")
        ELSE Return([full_name |-> body.full_name,
                     position |-> body.position,
                     age |-> body.age,
                     stats |-> stats,
                     marketability_score |-> market,
                     highlights |-> highlights])

---------------------------------------------------------------------------
(* Inputs.                                                                 *)

\* Longest stats list of a request
MaxRequestStats == 2
\* Longest stats list handed to compute_overall_score directly
MaxStats == 3
\* The scores handed to draft_projection and nil_value_estimate directly
\* are the integers from -MaxUnder to 100 + MaxOver and the edge scores
MaxUnder == 2
MaxOver == 20

Guard == <<"G", "u", "a", "r", "d">>

Positions == {Guard, <<"C", "E", "N", "T", "E", "R">>, <<"G", "o", "a", "l", "i", "e">>}

Ages == {-3, 20, 30, 45}

RequestStatPool ==
    { [name |-> "ppg", value |-> Dec(90, 1)],
      [name |-> "apg", value |-> Dec(80, 1)],
      [name |-> "ppg", value |-> Dec(84996, 1000)],
      [name |-> "rpg", value |-> Dec(130, 1)] }

StatPool ==
    RequestStatPool \cup
    { [name |-> "rpg", value |-> Dec(1, 10)],
      [name |-> "bpg", value |-> Dec(-20, 1)] }

RequestStatLists == UNION { [1..n -> RequestStatPool] : n \in 0..MaxRequestStats }

StatLists == UNION { [1..n -> StatPool] : n \in 0..MaxStats }

Markets == {None, Some(Dec(0, 1)), Some(Dec(8, 10)), Some(Dec(1, 1))}

RejectedMarkets == {Some(Dec(15, 10))}

HighlightLists == {None, Some(<<>>), Some(<<"All-conference", "MVP">>)}

\* Bodies that vary what the numbers are computed from
NumericBodies ==
    { Merge(Merge(b, s), m) :
        b \in [full_name : {"Alex Chen"}, position : {Guard}, age : Ages],
        s \in {<<>>} \cup [stats : RequestStatLists \ {<<>>}],
        m \in {<<>>} \cup [marketability_score : Markets \cup RejectedMarkets] }

\* Bodies that vary the position and the optional keys
OptionalBodies ==
    { Merge(Merge(Merge(b, s), m), h) :
        b \in [full_name : {"Alex Chen"}, position : Positions, age : {20}],
        s \in {<<>>, [stats |-> <<>>]},
        m \in {<<>>} \cup [marketability_score : {None, Some(Dec(9, 10))}],
        h \in {<<>>} \cup [highlights : HighlightLists] }

Bodies == NumericBodies \cup OptionalBodies

\* The players the boundary lets through
Players == { Player(body).value : body \in { b \in Bodies : ~Player(b).raised } }

\* A player with every field but the marketability score at a fixed value
DefaultPlayer(market) ==
    [full_name |-> "Alex Chen", position |-> Guard, age |-> 20, stats |-> <<>>,
     marketability_score |-> market, highlights |-> Some(<<>>)]

CallMarkets ==
    {None} \cup { Some(Dec(k, 100)) : k \in {0, 50, 51, 80, 81, 100} }

EdgeScores ==
    { Dec(84999, 1000), Dec(85001, 1000), Dec(69999, 1000), Dec(70001, 1000),
      Dec(54999, 1000), Dec(55001, 1000), Dec(845, 10), Dec(1, 3), Dec(-1, 3),
      Dec(9999, 100), Dec(1145, 10), Dec(1, 10) }

Scores == { FromInt(k) : k \in (-MaxUnder)..(100 + MaxOver) } \cup EdgeScores

---------------------------------------------------------------------------
(* The calls.  The service handles one call at a time: a call is made when *)
(* none is in progress, and its result is handed back before the next.     *)
(* Which builtin sum() the interpreter has is fixed when the service       *)
(* starts.                                                                 *)

Init ==
    /\ fn = "none"
    /\ args = <<>>
    /\ ret = None
    /\ sum_impl \in {"plain", "compensated"}

\* POST /generate_report: validation, then the handler
PostGenerateReport ==
    /\ UNCHANGED sum_impl
    /\ fn = "none"
    /\ \E body \in Bodies :
        LET player == Player(body)
        IN  /\ fn' = "generate_report"
            /\ args' = <<body>>
            /\ ret' = IF player.raised THEN player ELSE generate_report(player.value)

\* GET /health
GetHealth ==
    /\ UNCHANGED sum_impl
    /\ fn = "none"
    /\ fn' = "health"
    /\ args' = <<>>
    /\ ret' = health

CallComputeOverallScore ==
    /\ UNCHANGED sum_impl
    /\ fn = "none"
    /\ \E stats \in StatLists :
        /\ fn' = "compute_overall_score"
        /\ args' = <<stats>>
        /\ ret' = Return(compute_overall_score(stats))

CallComputeFitScores ==
    /\ UNCHANGED sum_impl
    /\ fn = "none"
    /\ \E player \in Players :
        /\ fn' = "compute_fit_scores"
        /\ args' = <<player>>
        /\ ret' = compute_fit_scores(player)

CallDraftProjection ==
    /\ UNCHANGED sum_impl
    /\ fn = "none"
    /\ \E overall_score \in Scores :
        /\ fn' = "draft_projection"
        /\ args' = <<DefaultPlayer(None), overall_score>>
        /\ ret' = Return(draft_projection(DefaultPlayer(None), overall_score))

CallNilValueEstimate ==
    /\ UNCHANGED sum_impl
    /\ fn = "none"
    /\ \E market \in CallMarkets, overall_score \in Scores :
        /\ fn' = "nil_value_estimate"
        /\ args' = <<DefaultPlayer(market), overall_score>>
        /\ ret' = nil_value_estimate(DefaultPlayer(market), overall_score)

\* The result is handed to the caller; nothing of the call is kept
Respond ==
    /\ UNCHANGED sum_impl
    /\ fn # "none"
    /\ fn' = "none"
    /\ args' = <<>>
    /\ ret' = None

Next ==
    \/ Respond
    \/ PostGenerateReport
    \/ GetHealth
    \/ CallComputeOverallScore
    \/ CallComputeFitScores
    \/ CallDraftProjection
    \/ CallNilValueEstimate

Spec == Init /\ [][Next]_vars

---------------------------------------------------------------------------
(* The properties.                                                         *)

\* The call in progress is a POST /generate_report whose body passed the
\* validation of the Player model
ReportOfValidPlayer == fn = "generate_report" /\ ~Player(args[1]).raised

InRange(x) == FGe(x, F0) /\ FLe(x, F100)

\* n is x with its fractional part discarded
TruncOf(x, n) ==
    /\ ~MagLt(x, FromInt(n))
    /\ MagLt(x, FromInt(IF n < 0 THEN n - 1 ELSE n + 1))
    /\ n > 0 => FGt(x, F0)
    /\ n < 0 => FLt(x, F0)

\* C1: generate_report answers every player the validation accepts, a null
\* marketability_score and null highlights included, with a complete
\* report of player, fit_scores, draft_projection, nil_estimate and report
\* text, and never ends in an error.
C1_GenerateReportTotal ==
    ReportOfValidPlayer =>
        /\ ~ret.raised
        /\ DOMAIN ret.value =
               {"player", "fit_scores", "draft_projection", "nil_estimate", "report"}

\* C2: for every valid player, of any integer age, the overall_score,
\* team_fit, agency_fit and opportunity_score that compute_fit_scores
\* returns all lie in [0,100].
C2_FitScoresInRange ==
    (fn = "compute_fit_scores" /\ ~ret.raised /\ args[1].marketability_score # None) =>
        \A k \in {"overall_score", "team_fit", "agency_fit", "opportunity_score"} :
            InRange(ret.value[k])

\* What C3 says of every list: 50.0 for the empty one, otherwise the mean
\* of the values brought into [0,100]
C3_MeanClamped ==
    fn = "compute_overall_score" =>
        LET stats == args[1]
            vals == [i \in 1..Len(stats) |-> stats[i].value]
        IN  /\ stats = <<>> => ret.value = F50
            /\ stats # <<>> =>
                   \A mean \in {FDivInt(sum(vals), Len(vals))} :
                       ret.value = IF FLt(mean, F0) THEN F0
                                   ELSE IF FGt(mean, F100) THEN F100 ELSE mean
            /\ InRange(ret.value)

\* The call in progress is compute_overall_score on a non-empty list whose
\* values all equal one v in [0,100]
AllEqualStats ==
    /\ fn = "compute_overall_score"
    /\ args[1] # <<>>
    /\ \A i \in 1..Len(args[1]) : args[1][i].value = args[1][1].value
    /\ InRange(args[1][1].value)

\* 2^-52, twice the unit roundoff of a double
TwoUnitRoundoff == [s |-> 1, m |-> <<0, 0, 0, 1024>>, e |-> -104]

\* C3 as stated: compute_overall_score returns exactly 50.0 for an empty
\* list and otherwise the unweighted mean of all values clamped to
\* [0,100], so the result is in [0,100] and equals v when every value
\* equals v with 0 <= v <= 100.
C3_OverallScoreEqualsCommonValue ==
    /\ C3_MeanClamped
    /\ AllEqualStats => ret.value = args[1][1].value

\* C3 amended: compute_overall_score returns exactly 50.0 for an empty
\* list and otherwise the unweighted mean of all values clamped to
\* [0,100], so the result is in [0,100]; when every one of the n values
\* equals v with 0 <= v <= 100 the result equals v for n <= 2 and differs
\* from v by at most v * n * 2^-52 for longer lists.
C3_OverallScoreNearCommonValue ==
    /\ C3_MeanClamped
    /\ AllEqualStats =>
           LET v == args[1][1].value
               n == Len(args[1])
               slack == FMul(v, FMul(FromInt(n), TwoUnitRoundoff))
           IN  /\ n <= 2 => ret.value = v
               /\ FLe(FSub(ret.value, v), slack)
               /\ FLe(FSub(v, ret.value), slack)

\* Three values 0.1 whose mean is not 0.1
C3_Witness ==
    /\ AllEqualStats
    /\ Len(args[1]) = 3
    /\ args[1][1].value = Dec(1, 10)
    /\ FGt(ret.value, Dec(1, 10))

\* C4: draft_projection is a step function of four buckets, total over all
\* scores: from 85 round 1, pick max(1, floor(30 - (score - 85))),
\* probability 0.95; from 70 to under 85 round 1, pick
\* floor(30 + (85 - score)), probability 0.75; from 55 to under 70 round 2,
\* pick floor(50 + (70 - score)), probability 0.45; under 55 round 3, no
\* pick, probability 0.12.  The pick is absent exactly when the round is 3.
C4_DraftBuckets ==
    fn = "draft_projection" =>
        LET score == args[2]
            top == FFloor(FSub(F30, FSub(score, F85)))
            bucket(round_, pick, prob) ==
                [projected_round |-> round_,
                 projected_pick_estimate |-> pick,
                 draft_probability |-> prob]
        IN  /\ ~ret.raised
            /\ FGe(score, F85) =>
                   ret.value = bucket(1, Some(IF top > 1 THEN top ELSE 1), F0_95)
            /\ FGe(score, F70) /\ FLt(score, F85) =>
                   ret.value = bucket(1, Some(FFloor(FAdd(F30, FSub(F85, score)))), F0_75)
            /\ FGe(score, F55) /\ FLt(score, F70) =>
                   ret.value = bucket(2, Some(FFloor(FAdd(F50, FSub(F70, score)))), F0_45)
            /\ FLt(score, F55) => ret.value = bucket(3, None, F0_12)
            /\ ret.value.projected_pick_estimate = None <=> ret.value.projected_round = 3

\* A score of exactly 85.0 in the top bucket
C4_Witness ==
    /\ fn = "draft_projection"
    /\ args[2] = F85
    /\ ret.value.projected_round = 1
    /\ ret.value.projected_pick_estimate = Some(30)
    /\ ret.value.draft_probability = F0_95

\* C5: nil_value_estimate returns current_estimated_nil = base and
\* projected_12m_nil = base * (1 + marketability_score) * 1.1, each with
\* its fractional part discarded (toward zero, not rounded), where base is
\* the untruncated (overall_score / 100) * 200000; a score of 100 with a
\* marketability of 1.0 gives 200000 and 440000.
C5_NilTruncated ==
    (fn = "nil_value_estimate" /\ ~ret.raised) =>
        \A market \in {args[1].marketability_score[1]} :
        \A base \in {FMul(FDivInt(args[2], 100), F200000)} :
        \A projected \in {FMul(FMul(base, FAdd(F1, market)), F1_1)} :
            /\ TruncOf(base, ret.value.current_estimated_nil)
            /\ TruncOf(projected, ret.value.projected_12m_nil)
            /\ (args[2] = F100 /\ market = F1) =>
                   /\ ret.value.current_estimated_nil = 200000
                   /\ ret.value.projected_12m_nil = 440000

\* A third of a point with a marketability of 1.0: 666.67 and 1466.67,
\* cut to 666 and 1466
C5_Witness ==
    /\ fn = "nil_value_estimate"
    /\ args[2] = Dec(1, 3)
    /\ args[1].marketability_score = Some(F1)
    /\ ret.value.current_estimated_nil = 666
    /\ ret.value.projected_12m_nil = 1466

\* C6: for every marketability_score in [0,1] nil_value_estimate gives
\* exactly one brand suggestion: the national one above 0.8, the regional
\* one above 0.5 and up to 0.8, the local one up to 0.5.
C6_OneBrandSuggestion ==
    (fn = "nil_value_estimate" /\ ~ret.raised) =>
        LET market == args[1].marketability_score[1]
            suggestions == ret.value.brand_suggestions
        IN  /\ Len(suggestions) = 1
            /\ FGt(market, F0_8) =>
                   suggestions[1] = "National brand endorsements; social-first campaigns"
            /\ FGt(market, F0_5) /\ FLe(market, F0_8) =>
                   suggestions[1] = "Regional brands, niche sponsors"
            /\ FLe(market, F0_5) =>
                   suggestions[1] = "Local sponsorships, community partnerships"

\* A marketability of exactly 0.8 is regional
C6_Witness ==
    /\ fn = "nil_value_estimate"
    /\ args[1].marketability_score = Some(F0_8)
    /\ ret.value.brand_suggestions = <<"Regional brands, niche sponsors">>

\* C7: compute_fit_scores returns team_fit = 0.6*(overall/100) +
\* 0.2*age_factor + 0.2*marketability_score, agency_fit =
\* 0.6*marketability_score + 0.4*(overall/100) and opportunity_score =
\* (team_fit + agency_fit)/2, each scaled by 100 and rounded to 2 decimals,
\* with age_factor = max(0, 30 - age)/30, 0 from age 30 on, and overall =
\* compute_overall_score(stats); overall_score is overall rounded to 2
\* decimals.
C7_FitFormulas ==
    (fn = "compute_fit_scores" /\ ~ret.raised) =>
        LET age == args[1].age
            market == args[1].marketability_score[1]
            age_factor == IF age >= 30 THEN F0 ELSE FDivInt(FromInt(30 - age), 30)
        IN  \A overall \in {compute_overall_score(args[1].stats)} :
            \A fraction \in {FDivInt(overall, 100)} :
            \A team \in {FAdd(FAdd(FMul(F0_6, fraction), FMul(F0_2, age_factor)),
                              FMul(F0_2, market))} :
            \A agency \in {FAdd(FMul(F0_6, market), FMul(F0_4, fraction))} :
                /\ ret.value.team_fit = FRound2(FMul(team, F100))
                /\ ret.value.agency_fit = FRound2(FMul(agency, F100))
                /\ ret.value.opportunity_score =
                       FRound2(FMul(FDivInt(FAdd(team, agency), 2), F100))
                /\ ret.value.overall_score = FRound2(overall)

\* Age 20, stats 90 and 80, marketability 0.8: overall 85.0, team fit
\* 0.51 + 0.0667 + 0.16, agency fit 0.48 + 0.34
C7_Witness ==
    /\ fn = "compute_fit_scores"
    /\ args[1].age = 20
    /\ args[1].marketability_score = Some(F0_8)
    /\ Len(args[1].stats) = 2
    /\ ret.value.overall_score = F85
    /\ ret.value.team_fit = Dec(7367, 100)
    /\ ret.value.agency_fit = Dec(82, 1)
    /\ ret.value.opportunity_score = Dec(7783, 100)

\* C8: in generate_report the draft projection and the NIL estimate are
\* those of draft_projection and nil_value_estimate applied to
\* compute_overall_score(player.stats), for every valid player, also when
\* the mean has more than two decimals and lies within 0.005 of 85, 70 or
\* 55.
C8_DraftAndNilFromNormalizer ==
    (ReportOfValidPlayer /\ ~ret.raised) =>
        \A player \in {Player(args[1]).value} :
        \A overall \in {compute_overall_score(player.stats)} :
            /\ ret.value.draft_projection = draft_projection(player, overall)
            /\ ret.value.nil_estimate = nil_value_estimate(player, overall).value

DraftGraph ==
    { <<score, draft_projection(DefaultPlayer(None), score)>> :
          score \in { s \in Scores : InRange(s) } }

\* C10: draft_projection is monotone over [0,100], also across 55, 70 and
\* 85: for scores a <= b the round for b is not larger, the probability
\* for b is not smaller, and when both have a pick the pick for b is not
\* larger; every pick estimate is an integer of at least 1.
C10_DraftMonotone ==
    fn = "draft_projection" =>
        LET a == args[2]
            pick == ret.value.projected_pick_estimate
        IN  /\ pick # None => pick[1] \in Nat /\ pick[1] >= 1
            /\ InRange(a) =>
                   \A g \in DraftGraph :
                       FLe(a, g[1]) =>
                           /\ g[2].projected_round <= ret.value.projected_round
                           /\ FGe(g[2].draft_probability, ret.value.draft_probability)
                           /\ (pick # None /\ g[2].projected_pick_estimate # None) =>
                                  g[2].projected_pick_estimate[1] <= pick[1]

\* Just under 70: round 2 with pick 50, where 70 itself has pick 45
C10_Witness ==
    /\ fn = "draft_projection"
    /\ args[2] = Dec(69999, 1000)
    /\ ret.value.projected_round = 2
    /\ ret.value.projected_pick_estimate = Some(50)
    /\ <<F70, [projected_round |-> 1, projected_pick_estimate |-> Some(45),
               draft_probability |-> F0_75]>> \in DraftGraph

============================================================================
